---- MODULE Spec2Model ----
(***************************************************************************)
(* A model of four pieces of the tree:                                     *)
(*   xpcom/ds/Atom.py                  hash_string, is_ascii_lowercase,    *)
(*                                     Atom                                *)
(*   testing/android-test/mach_commands.py   run_android_test and its path *)
(*                                     helpers                             *)
(*   toolkit/components/ml/eval/evals.py     the evaluation classes        *)
(*   python/mozperftest/mozperftest/metrics/eval.py   EvalMetrics.run      *)
(*                                                                         *)
(* Python integers are unbounded.  TLC's are 32-bit signed, and            *)
(* GOLDEN_RATIO_U32 does not fit in one, so a Python int n >= 0 is a       *)
(* sequence of base-256 digits, least significant first, with no leading   *)
(* zero digit (0 is << >>, 0x1F600 is <<0, 246, 1>>).  Shifts, bitwise     *)
(* operators and products are computed on that representation at full      *)
(* width, and only "& 0xFFFFFFFF" cuts a value down to 32 bits.            *)
(***************************************************************************)
EXTENDS Integers, Sequences, FiniteSets, TLC

VARIABLES
    callers,    \* the threads that make calls in this run
    inputs,     \* the strings a caller may pass
    pc,         \* pc[t]: where thread t is: "idle", "hash", "lower", "done"
    frame,      \* frame[t]: the locals of the invocation thread t is running
    call,       \* the last run_android_test call: its arguments and its outcome
    layer       \* the EvalMetrics layer: its metadata and where its run is

vars == <<callers, inputs, pc, frame, call, layer>>

-----------------------------------------------------------------------------
(* Python int arithmetic on base-256 digit sequences.  The helpers are      *)
(* functions: a function's argument is evaluated once, where it is applied. *)

DigitSeq == Seq(0..255)

\* Strip the most significant zero digits.
Norm[d \in DigitSeq] ==
    IF d = << >> THEN << >>
    ELSE IF d[Len(d)] = 0 THEN Norm[SubSeq(d, 1, Len(d) - 1)]
    ELSE d

\* The digit sequence of a small natural number.
FromInt[n \in Nat] ==
    IF n = 0 THEN << >> ELSE <<n % 256>> \o FromInt[n \div 256]

Digit(d, i) == IF i >= 1 /\ i <= Len(d) THEN d[i] ELSE 0

MaxOf(a, b) == IF a >= b THEN a ELSE b

\* d * k + carry for a small natural k (k * 255 + carry stays far below 2^31).
MulSmall[d \in DigitSeq, k \in Nat, carry \in Nat] ==
    IF d = << >> THEN FromInt[carry]
    ELSE <<(Head(d) * k + carry) % 256>>
            \o MulSmall[Tail(d), k, (Head(d) * k + carry) \div 256]

AddDigits[a \in DigitSeq, b \in DigitSeq, carry \in Nat] ==
    IF a = << >> /\ b = << >> THEN FromInt[carry]
    ELSE <<(Digit(a, 1) + Digit(b, 1) + carry) % 256>>
            \o AddDigits[IF a = << >> THEN << >> ELSE Tail(a),
                         IF b = << >> THEN << >> ELSE Tail(b),
                         (Digit(a, 1) + Digit(b, 1) + carry) \div 256]

\* x * y: schoolbook product, one digit of y at a time.
IntMul[x \in DigitSeq, y \in DigitSeq] ==
    IF y = << >> THEN << >>
    ELSE Norm[AddDigits[MulSmall[x, Head(y), 0], <<0>> \o IntMul[x, Tail(y)], 0]]

\* value << n
ShiftLeft[value \in DigitSeq, n \in Nat] ==
    Norm[[i \in 1..(n \div 8) |-> 0] \o MulSmall[value, 2 ^ (n % 8), 0]]

\* The digits of d \div k, most significant digit of d first in the recursion.
DivSmall[d \in DigitSeq, k \in Nat, rem \in Nat] ==
    IF d = << >> THEN << >>
    ELSE DivSmall[SubSeq(d, 1, Len(d) - 1), k, (rem * 256 + d[Len(d)]) % k]
            \o <<(rem * 256 + d[Len(d)]) \div k>>

\* value >> n
ShiftRight[value \in DigitSeq, n \in Nat] ==
    IF Len(value) <= n \div 8 THEN << >>
    ELSE Norm[DivSmall[SubSeq(value, (n \div 8) + 1, Len(value)), 2 ^ (n % 8), 0]]

\* a | b on two digits.
BitsOr[a \in 0..255, b \in 0..255] ==
    IF a = 0 THEN b
    ELSE IF b = 0 THEN a
    ELSE (IF a % 2 = 1 \/ b % 2 = 1 THEN 1 ELSE 0) + 2 * BitsOr[a \div 2, b \div 2]

\* a ^ b on two digits.
BitsXor[a \in 0..255, b \in 0..255] ==
    IF a = 0 THEN b
    ELSE IF b = 0 THEN a
    ELSE (IF a % 2 # b % 2 THEN 1 ELSE 0) + 2 * BitsXor[a \div 2, b \div 2]

\* a | b
IntOr[a \in DigitSeq, b \in DigitSeq] ==
    Norm[[i \in 1..MaxOf(Len(a), Len(b)) |-> BitsOr[Digit(a, i), Digit(b, i)]]]

\* a ^ b
IntXor[a \in DigitSeq, b \in DigitSeq] ==
    Norm[[i \in 1..MaxOf(Len(a), Len(b)) |-> BitsXor[Digit(a, i), Digit(b, i)]]]

\* a & 0xFFFFFFFF: the four least significant digits.
Mask32[a \in DigitSeq] == Norm[SubSeq(a, 1, IF Len(a) < 4 THEN Len(a) ELSE 4)]

-----------------------------------------------------------------------------
(* xpcom/ds/Atom.py                                                        *)

\* 0x9E3779B9
GOLDEN_RATIO_U32 == <<185, 121, 55, 158>>

\* value is read once for each shift.
rotate_left_5(value) ==
    Mask32[IntOr[ShiftLeft[value, 5], ShiftRight[value, 27]]]

\* wrapping_multiply without its mask.
wrapping_multiply_unmasked(x, y) == IntMul[x, y]

wrapping_multiply(x, y) == Mask32[IntMul[x, y]]

\* ord(c) cut down to a 16-bit code unit, as a char16_t would hold it.
ordCodeUnit(c) == FromInt[c % 65536]

\* A character is held as its code point, which is what ord(c) reads off it.
ord(c) == FromInt[c]

\* The loop body with the XOR made before the rotation.
HashStepXorFirst(h, c) ==
    wrapping_multiply(GOLDEN_RATIO_U32, rotate_left_5(IntXor[h, ord(c)]))

\* One iteration of hash_string's loop: the new h.
HashStep(h, c) ==
    wrapping_multiply(GOLDEN_RATIO_U32, IntXor[rotate_left_5(h), ord(c)])

RECURSIVE HashFrom(_, _)
HashFrom(h, s) ==
    IF s = << >> THEN h ELSE HashFrom(HashStep(h, Head(s)), Tail(s))

hash_string(s) == HashFrom(<< >>, s)

\* The range test with 'A' left out, and with 'Z' left out.
IsAsciiUpperAfterA(c) == c > 65 /\ c <= 90

IsAsciiUpperBeforeZ(c) == c >= 65 /\ c < 90

\* c >= "A" and c <= "Z": one-character strings compare by code point.
IsAsciiUpper(c) == c >= 65 /\ c <= 90

RECURSIVE is_ascii_lowercase(_)
is_ascii_lowercase(s) ==
    IF s = << >> THEN TRUE
    ELSE IF IsAsciiUpper(Head(s)) THEN FALSE
    ELSE is_ascii_lowercase(Tail(s))

\* The constructor with both functions run on ident.
AtomOfIdent(ident, string) ==
    [ident |-> ident,
     string |-> string,
     hash |-> hash_string(ident),
     is_ascii_lowercase |-> is_ascii_lowercase(ident)]

\* Atom.__init__: the object it leaves behind.
Atom(ident, string) ==
    [ident |-> ident,
     string |-> string,
     hash |-> hash_string(string),
     is_ascii_lowercase |-> is_ascii_lowercase(string)]

-----------------------------------------------------------------------------
(* The calls as steps: one thread runs one invocation at a time, and the   *)
(* loops of hash_string and is_ascii_lowercase advance one character per   *)
(* step, so that invocations on different threads interleave.              *)

Threads == {"t1", "t2"}

\* The longest string passed in a sequential run, and in a concurrent one.
MaxLen == 2
ConcMaxLen == 2

\* '@', 'A', 'Z', '[', 'a', 'E-acute', 'e-acute', U+1F600, U+10FFFF
Alphabet == {64, 65, 90, 91, 97, 201, 233, 128512, 1114111}
ConcAlphabet == {65, 128512}

\* Identifiers, as character sequences: "a", "Aa"
Idents == {<<97>>, <<65, 97>>}

Strings(alphabet, n) == UNION {[1..k -> alphabet] : k \in 0..n}

NoFrame ==
    [fn |-> "none", ident |-> << >>, s |-> << >>, i |-> 0, h |-> << >>,
     n |-> 0, ret |-> "none"]

\* The accumulator as one module-level variable, here thread t1's.
AccShared(t) == frame["t1"].h

\* The loop of hash_string without the way out at the end of the string.
HashLoopNoEnd(t) ==
    /\ pc[t] = "hash"
    /\ LET f == frame[t]
       IN  /\ f.i <= Len(f.s)
           /\ frame' = [frame EXCEPT ![t] =
                   [f EXCEPT !.h = HashStep(frame[t].h, f.s[f.i]),
                             !.i = f.i + 1,
                             !.n = f.n + 1]]
           /\ pc' = pc
    /\ UNCHANGED <<callers, inputs, call, layer>>

\* The accumulator thread t's next loop step reads.
Acc(t) == frame[t].h

\* hash_string is entered: h = 0, and the loop is before the first character.
CallHash(t, s) ==
    /\ t \in callers
    /\ pc[t] = "idle"
    /\ pc' = [pc EXCEPT ![t] = "hash"]
    /\ frame' = [frame EXCEPT ![t] =
            [NoFrame EXCEPT !.fn = "hash_string", !.s = s, !.i = 1, !.h = << >>]]
    /\ UNCHANGED <<callers, inputs, call, layer>>

\* One turn of "for c in s": the next character is folded into h, or the
\* string is exhausted and h is returned.
HashLoop(t) ==
    /\ pc[t] = "hash"
    /\ LET f == frame[t]
       IN  IF f.i <= Len(f.s)
           THEN /\ frame' = [frame EXCEPT ![t] =
                        [f EXCEPT !.h = HashStep(Acc(t), f.s[f.i]),
                                  !.i = f.i + 1,
                                  !.n = f.n + 1]]
                /\ pc' = pc
           ELSE /\ frame' = [frame EXCEPT ![t] = [f EXCEPT !.ret = Acc(t)]]
                /\ pc' = [pc EXCEPT ![t] = "done"]
    /\ UNCHANGED <<callers, inputs, call, layer>>

CallLower(t, s) ==
    /\ t \in callers
    /\ pc[t] = "idle"
    /\ pc' = [pc EXCEPT ![t] = "lower"]
    /\ frame' = [frame EXCEPT ![t] =
            [NoFrame EXCEPT !.fn = "is_ascii_lowercase", !.s = s, !.i = 1]]
    /\ UNCHANGED <<callers, inputs, call, layer>>

\* One turn of is_ascii_lowercase's loop: an upper-case ASCII letter returns
\* False at once, any other character moves on, the end returns True.
LowerLoop(t) ==
    /\ pc[t] = "lower"
    /\ LET f == frame[t]
       IN  IF f.i <= Len(f.s)
           THEN IF IsAsciiUpper(f.s[f.i])
                THEN /\ frame' = [frame EXCEPT ![t] =
                             [f EXCEPT !.ret = FALSE, !.n = f.n + 1]]
                     /\ pc' = [pc EXCEPT ![t] = "done"]
                ELSE /\ frame' = [frame EXCEPT ![t] =
                             [f EXCEPT !.i = f.i + 1, !.n = f.n + 1]]
                     /\ pc' = pc
           ELSE /\ frame' = [frame EXCEPT ![t] = [f EXCEPT !.ret = TRUE]]
                /\ pc' = [pc EXCEPT ![t] = "done"]
    /\ UNCHANGED <<callers, inputs, call, layer>>

\* Atom(ident, string): the constructor runs both functions on the string.
NewAtom(t, ident, string) ==
    /\ t \in callers
    /\ pc[t] = "idle"
    /\ pc' = [pc EXCEPT ![t] = "done"]
    /\ frame' = [frame EXCEPT ![t] =
            [NoFrame EXCEPT !.fn = "Atom", !.ident = ident, !.s = string,
                            !.ret = Atom(ident, string)]]
    /\ UNCHANGED <<callers, inputs, call, layer>>

\* The caller takes the result; the frame is gone.
Return(t) ==
    /\ pc[t] = "done"
    /\ pc' = [pc EXCEPT ![t] = "idle"]
    /\ frame' = [frame EXCEPT ![t] = NoFrame]
    /\ UNCHANGED <<callers, inputs, call, layer>>

NoCall ==
    [made |-> FALSE, subproject |-> << >>, test |-> << >>, test_objects |-> << >>,
     dispatched |-> << >>, result |-> "none"]

\* No EvalMetrics layer runs.
NoLayer == [pc |-> "none"]

InitThreads ==
    /\ pc = [t \in Threads |-> "idle"]
    /\ frame = [t \in Threads |-> NoFrame]
    /\ call = NoCall
    /\ layer = NoLayer

\* One caller, strings over the whole alphabet.
Init ==
    /\ callers = {"t1"}
    /\ inputs = Strings(Alphabet, MaxLen)
    /\ InitThreads

\* Every thread calls.
InitConc ==
    /\ callers = Threads
    /\ inputs = Strings(ConcAlphabet, ConcMaxLen)
    /\ InitThreads

Next ==
    \E t \in Threads :
        \/ \E s \in inputs : CallHash(t, s)
        \/ HashLoop(t)
        \/ \E s \in inputs : CallLower(t, s)
        \/ LowerLoop(t)
        \/ \E ident \in Idents, s \in inputs : NewAtom(t, ident, s)
        \/ Return(t)

Spec == Init /\ [][Next]_vars

SpecConc == InitConc /\ [][Next]_vars

\* A call that has started keeps running: the loops are not suspended.
SpecFair ==
    Init /\ [][Next]_vars /\ \A t \in Threads : WF_vars(HashLoop(t) \/ LowerLoop(t))

-----------------------------------------------------------------------------
(* The reference hash, on 32-bit words held as 32 bits, bit 0 first: the   *)
(* fold h := (0x9E3779B9 * (rotl32(h, 5) XOR code point)) mod 2^32.        *)

\* The 32 bits of a value below 2^32 given by its base-256 digits.
BitsOfDigits(d) ==
    [k \in 1..32 |-> (Digit(d, ((k - 1) \div 8) + 1) \div (2 ^ ((k - 1) % 8))) % 2]

\* The bits of a code point (code points are below 2^21).
BitsOfCodePoint(c) ==
    [k \in 1..32 |-> IF k > 21 THEN 0 ELSE (c \div (2 ^ (k - 1))) % 2]

\* 0x9E3779B9, hexadecimal digit by digit, most significant first.
RefGoldenHex == <<9, 14, 3, 7, 7, 9, 11, 9>>

RefGoldenBits ==
    [k \in 1..32 |-> (RefGoldenHex[8 - ((k - 1) \div 4)] \div (2 ^ ((k - 1) % 4))) % 2]

RefZero == [k \in 1..32 |-> 0]

RefRotl5(b) == [k \in 1..32 |-> b[((k - 6 + 32) % 32) + 1]]

RefXor(a, b) == [k \in 1..32 |-> (a[k] + b[k]) % 2]

RECURSIVE RefMulFrom(_, _, _)
\* Bits k..32 of (0x9E3779B9 * x) mod 2^32, column by column: column k sums
\* the products of the bits of the two factors whose positions add up to it,
\* plus the carry of the columns below; what would carry out of bit 32 is lost.
RefMulFrom(x, k, carry) ==
    IF k > 32 THEN << >>
    ELSE LET v == carry
                  + Cardinality({j \in 1..k : RefGoldenBits[j] = 1 /\ x[k + 1 - j] = 1})
         IN  <<v % 2>> \o RefMulFrom(x, k + 1, v \div 2)

RefStep(h, c) == RefMulFrom(RefXor(RefRotl5(h), BitsOfCodePoint(c)), 1, 0)

RECURSIVE RefFold(_, _)
RefFold(h, s) == IF s = << >> THEN h ELSE RefFold(RefStep(h, Head(s)), Tail(s))

RefHash(s) == RefFold(RefZero, s)

\* A Python int in 0..2^32-1.
IsU32(d) ==
    /\ Len(d) <= 4
    /\ \A i \in 1..Len(d) : d[i] \in 0..255
    /\ (d # << >> => d[Len(d)] # 0)

Running(t, fn) == pc[t] \in {"hash", "lower"} /\ frame[t].fn = fn

Returned(t, fn) == pc[t] = "done" /\ frame[t].fn = fn

-----------------------------------------------------------------------------
(* Claims about xpcom/ds/Atom.py                                           *)

\* C1: hash_string(s) is the reference fold: h starts at 0 and each character
\* c, in order, makes h = (0x9E3779B9 * (rotl32(h, 5) XOR c)) mod 2^32; this
\* holds of h after every iteration (for the characters read so far) and of the
\* returned value, and the empty string hashes to 0.
C1_HashIsReferenceFold ==
    /\ BitsOfDigits(GOLDEN_RATIO_U32) = RefGoldenBits
    /\ \A t \in Threads :
        /\ Running(t, "hash_string") =>
              /\ IsU32(frame[t].h)
              /\ BitsOfDigits(frame[t].h)
                    = RefHash(SubSeq(frame[t].s, 1, frame[t].i - 1))
        /\ Returned(t, "hash_string") =>
              /\ IsU32(frame[t].ret)
              /\ BitsOfDigits(frame[t].ret) = RefHash(frame[t].s)
              /\ (frame[t].s = << >> => frame[t].ret = << >>)

\* A two-character string has been hashed to a value that is not 0.
C1_Witness ==
    \E t \in Threads :
        /\ Returned(t, "hash_string")
        /\ Len(frame[t].s) = 2
        /\ frame[t].s[1] # frame[t].s[2]
        /\ frame[t].ret # << >>

\* C2: the accumulator of hash_string is an unsigned 32-bit value at every
\* step: h after each iteration and the returned value lie in 0..2^32-1, so
\* rotate_left_5 is only applied to a value below 2^32.
C2_AccumulatorIsU32 ==
    \A t \in Threads :
        /\ Running(t, "hash_string") => IsU32(frame[t].h)
        /\ Returned(t, "hash_string") => IsU32(frame[t].h) /\ IsU32(frame[t].ret)

\* The iteration just made read a character above 0xFFFF, its product at full
\* width needed more than 32 bits, and the h it left has its top bit set.
C2_Witness ==
    \E t \in Threads :
        /\ Running(t, "hash_string")
        /\ frame[t].i = 3
        /\ frame[t].s[2] > 65535
        /\ LET before == hash_string(SubSeq(frame[t].s, 1, 1))
           IN  Len(IntMul[GOLDEN_RATIO_U32,
                          IntXor[rotate_left_5(before), ord(frame[t].s[2])]]) > 4
        /\ Len(frame[t].h) = 4
        /\ frame[t].h[4] >= 128

NoAsciiUpper(s) == \A k \in 1..Len(s) : s[k] \notin 65..90

\* C3: is_ascii_lowercase(s) is true if and only if no character of s has a
\* code point in 0x41..0x5A; the empty string gives true, and digits,
\* punctuation, lower-case ASCII letters and non-ASCII characters of either
\* case never make the result false.
C3_LowercaseIffNoAsciiUpper ==
    \A t \in Threads :
        Returned(t, "is_ascii_lowercase") =>
            /\ frame[t].ret = NoAsciiUpper(frame[t].s)
            /\ (frame[t].s = << >> => frame[t].ret = TRUE)

\* True was returned for a string holding an upper-case non-ASCII letter and
\* one of the two neighbours of 'A'..'Z'.
C3_Witness ==
    \E t \in Threads :
        /\ Returned(t, "is_ascii_lowercase")
        /\ frame[t].ret = TRUE
        /\ \E j, k \in 1..Len(frame[t].s) :
              frame[t].s[j] = 201 /\ frame[t].s[k] \in {64, 91}

\* C4: hash_string is deterministic and unseeded: two invocations on equal
\* character sequences return the same value, whatever else is running and
\* whatever ran before.
C4_HashDeterministic ==
    \A t1, t2 \in Threads :
        (/\ Returned(t1, "hash_string")
         /\ Returned(t2, "hash_string")
         /\ frame[t1].s = frame[t2].s)
        => frame[t1].ret = frame[t2].ret

\* Two threads have each hashed the same two-character string.
C4_Witness ==
    \E t1, t2 \in Threads :
        /\ t1 # t2
        /\ Returned(t1, "hash_string")
        /\ Returned(t2, "hash_string")
        /\ frame[t1].s = frame[t2].s
        /\ Len(frame[t1].s) = 2

\* C5: an Atom built from (ident, string) has hash = the hash of string and
\* is_ascii_lowercase = the classification of string, both functions of the
\* string alone: two Atoms of one string with different idents carry equal
\* hash and is_ascii_lowercase, and ident and string are stored as given.
C5_AtomFieldsFromString ==
    /\ \A t \in Threads :
          Returned(t, "Atom") =>
              /\ frame[t].ret.ident = frame[t].ident
              /\ frame[t].ret.string = frame[t].s
              /\ IsU32(frame[t].ret.hash)
              /\ BitsOfDigits(frame[t].ret.hash) = RefHash(frame[t].s)
              /\ frame[t].ret.is_ascii_lowercase = NoAsciiUpper(frame[t].s)
    /\ \A t1, t2 \in Threads :
          (/\ Returned(t1, "Atom")
           /\ Returned(t2, "Atom")
           /\ frame[t1].ret.string = frame[t2].ret.string)
          => /\ frame[t1].ret.hash = frame[t2].ret.hash
             /\ frame[t1].ret.is_ascii_lowercase = frame[t2].ret.is_ascii_lowercase

\* Two Atoms of the same non-empty string with different idents exist, and
\* the ident of one classifies differently from the string.
C5_Witness ==
    \E t1, t2 \in Threads :
        /\ Returned(t1, "Atom")
        /\ Returned(t2, "Atom")
        /\ frame[t1].ret.string = frame[t2].ret.string
        /\ frame[t1].ret.string # << >>
        /\ frame[t1].ret.ident # frame[t2].ret.ident
        /\ NoAsciiUpper(frame[t1].ret.ident) # NoAsciiUpper(frame[t1].ret.string)

\* C6: hash_string and is_ascii_lowercase are total: on every string, empty,
\* ASCII or not, a call that has started makes at most one iteration per
\* character and then returns a value (a 32-bit number, a boolean).
C6_Total ==
    \A t \in Threads :
        /\ [](frame[t].n <= Len(frame[t].s))
        /\ (pc[t] \in {"hash", "lower"})
              ~> (/\ pc[t] = "done"
                  /\ frame[t].fn = "hash_string" => IsU32(frame[t].ret)
                  /\ frame[t].fn = "is_ascii_lowercase" => frame[t].ret \in BOOLEAN)

\* hash_string has returned after one iteration for each of two characters,
\* neither of them ASCII.
C6_Witness ==
    \E t \in Threads :
        /\ Returned(t, "hash_string")
        /\ Len(frame[t].s) = 2
        /\ frame[t].n = 2
        /\ \A k \in 1..2 : frame[t].s[k] > 127

\* C7: invocations share no state: with the loop steps of several
\* invocations interleaved in any order, each returns the value the function
\* has on its input when run alone.
C7_InvocationsIndependent ==
    \A t \in Threads :
        /\ Returned(t, "hash_string") => frame[t].ret = hash_string(frame[t].s)
        /\ Returned(t, "is_ascii_lowercase")
              => frame[t].ret = is_ascii_lowercase(frame[t].s)

\* One invocation of hash_string has returned the hash of a two-character
\* string while another, on a different string, is half way through its loop.
C7_Witness ==
    \E t1, t2 \in Threads :
        /\ t1 # t2
        /\ Returned(t1, "hash_string")
        /\ Len(frame[t1].s) = 2
        /\ Running(t2, "hash_string")
        /\ Len(frame[t2].s) = 2
        /\ frame[t2].i = 2
        /\ frame[t2].s # frame[t1].s

\* s with 'A'..'Z' mapped to 'a'..'z' and every other character kept.
AsciiLowercased(s) ==
    [k \in 1..Len(s) |-> IF s[k] >= 65 /\ s[k] <= 90 THEN s[k] + 32 ELSE s[k]]

\* C8: is_ascii_lowercase(s) is true exactly when lowercasing s the ASCII way
\* ('A'..'Z' to 'a'..'z', nothing else touched) leaves s unchanged.
C8_LowercaseIffFixedPoint ==
    \A t \in Threads :
        Returned(t, "is_ascii_lowercase")
            => (frame[t].ret = TRUE <=> AsciiLowercased(frame[t].s) = frame[t].s)

\* False was returned for a string whose only ASCII upper-case letter is a
\* 'Z' in last place.
C8_Witness ==
    \E t \in Threads :
        /\ Returned(t, "is_ascii_lowercase")
        /\ frame[t].ret = FALSE
        /\ Len(frame[t].s) = 2
        /\ frame[t].s[2] = 90
        /\ frame[t].s[1] \notin 65..90

\* The characters a single step is compared on: the alphabet of the calls and
\* U+F600, which has the low 16 bits of U+1F600.
StepCodePoints == Alphabet \cup {62976}

\* The string s with its last character replaced by c.
WithLast(s, c) == Append(SubSeq(s, 1, Len(s) - 1), c)

\* C22: one step of hash_string is injective in the character: from any
\* accumulator h that hash_string holds, two distinct code points c1 and c2
\* give different values of (0x9E3779B9 * (rotate_left_5(h) XOR c)) mod 2^32;
\* hence the hash returned for a non-empty string differs from the hash of
\* every string with the same prefix and another last character, and distinct
\* one-character strings never collide.  Inequality is symmetric, so each
\* pair of distinct code points is compared once, smaller first.
C22_StepInjectiveInCharacter ==
    \A t \in Threads :
        /\ (Running(t, "hash_string") \/ Returned(t, "hash_string")) =>
              \A c1, c2 \in StepCodePoints :
                  c1 < c2 => HashStep(frame[t].h, c1) # HashStep(frame[t].h, c2)
        /\ (Returned(t, "hash_string") /\ frame[t].s # << >>) =>
              \A c \in StepCodePoints \ {frame[t].s[Len(frame[t].s)]} :
                  frame[t].ret # hash_string(WithLast(frame[t].s, c))

\* A two-character string ending in U+1F600 has been hashed from a prefix
\* whose hash is not 0, and its sibling ending in U+F600 hashes to another
\* value.
C22_Witness ==
    \E t \in Threads :
        /\ Returned(t, "hash_string")
        /\ Len(frame[t].s) = 2
        /\ frame[t].s[2] = 128512
        /\ hash_string(SubSeq(frame[t].s, 1, 1)) # << >>
        /\ frame[t].ret # hash_string(WithLast(frame[t].s, 62976))

-----------------------------------------------------------------------------
(* testing/android-test/mach_commands.py                                   *)
(*                                                                         *)
(* A Python string is a sequence of symbols.  "/" is os.path.sep, " " is a *)
(* blank, "." and ".." are the two special path components, ".kt" and      *)
(* ".java" are the suffixes the code strips, and every other symbol is a   *)
(* run of characters holding none of these.  str.split, removeprefix,      *)
(* removesuffix and replace work on substrings, not on path components,    *)
(* and so do the operators below.                                          *)

Sep == "/"

\* None: a value that is no string of the runs.
None == <<"None">>

\* if x: neither None nor the empty string.
Truthy(x) == x # None /\ x # << >>

Last(seq) == seq[Len(seq)]

StartsWith(s, p) == Len(p) <= Len(s) /\ SubSeq(s, 1, Len(p)) = p

EndsWith(s, p) == Len(p) <= Len(s) /\ SubSeq(s, Len(s) - Len(p) + 1, Len(s)) = p

removeprefix(s, p) == IF StartsWith(s, p) THEN SubSeq(s, Len(p) + 1, Len(s)) ELSE s

removesuffix(s, p) == IF EndsWith(s, p) THEN SubSeq(s, 1, Len(s) - Len(p)) ELSE s

\* s.find(sub) + 1: where sub first occurs in s, 0 if nowhere.
Find(s, sub) ==
    LET hits == {i \in 1..(Len(s) - Len(sub) + 1) : SubSeq(s, i, i + Len(sub) - 1) = sub}
    IN  IF hits = {} THEN 0 ELSE CHOOSE i \in hits : \A j \in hits : i <= j

RECURSIVE split(_, _)
\* s.split(sub) for a non-empty sub: the pieces between its occurrences,
\* found from the left without overlap.
split(s, sub) ==
    LET at == Find(s, sub)
    IN  IF at = 0 THEN <<s>>
        ELSE <<SubSeq(s, 1, at - 1)>> \o split(SubSeq(s, at + Len(sub), Len(s)), sub)

\* s.replace(old, new) for one-symbol old and new.
replace(s, old, new) == [i \in 1..Len(s) |-> IF s[i] = old THEN new ELSE s[i]]

RECURSIVE lstrip(_)
lstrip(s) == IF s # << >> /\ Head(s) = " " THEN lstrip(Tail(s)) ELSE s

RECURSIVE rstrip(_)
rstrip(s) ==
    IF s # << >> /\ Last(s) = " " THEN rstrip(SubSeq(s, 1, Len(s) - 1)) ELSE s

strip(s) == rstrip(lstrip(s))

RECURSIVE str_join(_, _)
\* sep.join(parts)
str_join(sep, parts) ==
    IF parts = << >> THEN << >>
    ELSE IF Len(parts) = 1 THEN parts[1]
    ELSE parts[1] \o sep \o str_join(sep, Tail(parts))

RECURSIVE path_join(_)
\* os.path.join(*parts): a part starting with "/" starts over, and a "/" is
\* put between two parts unless the left one is empty or ends with one.
path_join(parts) ==
    IF Len(parts) = 1 THEN parts[1]
    ELSE LET path == path_join(SubSeq(parts, 1, Len(parts) - 1))
             b == Last(parts)
         IN  IF StartsWith(b, <<Sep>>) THEN b
             ELSE IF path = << >> \/ EndsWith(path, <<Sep>>) THEN path \o b
             ELSE path \o <<Sep>> \o b

RECURSIVE NormComps(_, _, _)
\* The loop of os.path.normpath over the components of the path.
NormComps(comps, new_comps, initial_slashes) ==
    IF comps = << >> THEN new_comps
    ELSE LET comp == Head(comps)
         IN  IF comp = << >> \/ comp = <<".">>
             THEN NormComps(Tail(comps), new_comps, initial_slashes)
             ELSE IF \/ comp # <<"..">>
                     \/ (initial_slashes = 0 /\ new_comps = << >>)
                     \/ (new_comps # << >> /\ Last(new_comps) = <<"..">>)
             THEN NormComps(Tail(comps), Append(new_comps, comp), initial_slashes)
             ELSE IF new_comps # << >>
             THEN NormComps(Tail(comps), SubSeq(new_comps, 1, Len(new_comps) - 1),
                            initial_slashes)
             ELSE NormComps(Tail(comps), new_comps, initial_slashes)

\* os.path.normpath (posix)
normpath(path) ==
    IF path = << >> THEN <<".">>
    ELSE LET initial_slashes ==
                 IF ~StartsWith(path, <<Sep>>) THEN 0
                 ELSE IF StartsWith(path, <<Sep, Sep>>) /\ ~StartsWith(path, <<Sep, Sep, Sep>>)
                 THEN 2
                 ELSE 1
             joined ==
                 [i \in 1..initial_slashes |-> Sep]
                    \o str_join(<<Sep>>, NormComps(split(path, <<Sep>>), << >>, initial_slashes))
         IN  IF joined = << >> THEN <<".">> ELSE joined

classname_for_test(test, test_path) ==
    removesuffix(
        removesuffix(
            replace(removeprefix(Last(split(normpath(test), normpath(test_path))), <<Sep>>),
                    Sep, "."),
            <<".kt">>),
        <<".java">>)

project_for_test(test, prefix) ==
    split(removeprefix(Last(split(normpath(test), normpath(prefix))), <<Sep>>), <<Sep>>)[1]

project_for_ac(test, prefix, test_path) ==
    replace(
        removesuffix(
            removeprefix(
                split(Last(split(normpath(test), normpath(prefix))), normpath(test_path))[1],
                <<Sep>>),
            <<Sep>>),
        Sep, "-")

\* tests: the names of test_objects, then the stripped test if one is given.
Tests(test, test_objects) ==
    [i \in 1..Len(test_objects) |-> test_objects[i].name]
        \o (IF Truthy(test) THEN <<strip(test)>> ELSE << >>)

\* A subproject that ignores the test it is given.
SubprojectOfArgument(subproject, test) == subproject

\* "Override subproject if test explicitly set"
SubprojectOf(subproject, test) ==
    IF Truthy(test)
    THEN project_for_test(test, path_join(<< <<"mobile">>, <<"android">> >>))
    ELSE subproject

ALIASES ==
    (<<"focus">> :> <<"focus-android">>)
        @@ (<<"ac">> :> <<"android-components">>)
        @@ (<<"gv">> :> <<"geckoview">>)

\* A lookup that leaves every name as it is.
AliasKept(subproject) == subproject

\* ALIASES.get(subproject, subproject)
ResolveAlias(subproject) ==
    IF subproject \in DOMAIN ALIASES THEN ALIASES[subproject] ELSE subproject

\* "Determine project directory"; None where the function returns None.
Subdir(subproject) ==
    CASE subproject = <<"fenix">> ->
            path_join(<< <<"mobile">>, <<"android">>, <<"fenix">>, <<"app">> >>)
      [] subproject = <<"focus-android">> ->
            path_join(<< <<"mobile">>, <<"android">>, <<"focus-android">>, <<"app">> >>)
      [] subproject = <<"android-components">> ->
            path_join(<< <<"mobile">>, <<"android">>, <<"android-components">> >>)
      [] subproject = <<"geckoview">> ->
            path_join(<< <<"mobile">>, <<"android">>, <<"geckoview">> >>)
      [] OTHER -> None

\* The keys kept in the order they are given, with their repetitions.
KeysAsGiven(keys) == keys

RECURSIVE KeysInOrder(_)
\* list(dict.fromkeys(keys)): each key once, in the order of first occurrence.
KeysInOrder(keys) ==
    IF keys = << >> THEN << >>
    ELSE LET rest == KeysInOrder(SubSeq(keys, 1, Len(keys) - 1))
         IN  IF \E i \in 1..Len(rest) : rest[i] = Last(keys)
             THEN rest
             ELSE Append(rest, Last(keys))

\* "Compute the gradle tasks we need"
GradleTasks(subproject, subdir, test_path, tests) ==
    CASE subproject = <<"fenix">> -> << <<"testDebugUnitTest">> >>
      [] subproject = <<"focus-android">> -> << <<"testFocusDebugUnitTest">> >>
      [] subproject = <<"android-components">> ->
            IF tests # << >>
            THEN LET prefix == path_join(<<subdir, <<"components">> >>)
                     projects ==
                         KeysInOrder([i \in 1..Len(tests) |->
                                         project_for_ac(tests[i], prefix, test_path)])
                 IN  [i \in 1..Len(projects) |->
                         <<":components:">> \o projects[i] \o <<":testDebugUnitTest">>]
            ELSE << <<"testDebugUnitTest">> >>
      [] subproject = <<"geckoview">> -> << <<"testDebugUnitTest">> >>

RECURSIVE TestsOptions(_, _)
\* "Compute the class names from file names": --tests <class> for each test.
TestsOptions(tests, test_path) ==
    IF tests = << >> THEN << >>
    ELSE << <<"--tests">>, classname_for_test(Head(tests), test_path) >>
            \o TestsOptions(Tail(tests), test_path)

\* run_android_test(command_context, subproject, test, test_objects), the one
\* command of a mach process; the dispatched gradle command ends with result,
\* which the dispatch records and the function returns.
RunAndroidTest(subproject_arg, test, test_objects, result) ==
    LET tests == Tests(test, test_objects)
        subproject == ResolveAlias(SubprojectOf(subproject_arg, test))
        test_path == path_join(<< <<"src">>, <<"test">>, <<"java">> >>)
        subdir == Subdir(subproject)
        gradle_command ==
            GradleTasks(subproject, subdir, test_path, tests)
                \o << <<"--rerun">> >>
                \o TestsOptions(tests, test_path)
    IN  /\ ~call.made
        /\ call' =
              IF subdir = None
              THEN [made |-> TRUE, subproject |-> subproject_arg, test |-> test,
                    test_objects |-> test_objects, dispatched |-> << >>,
                    result |-> "None"]
              ELSE [made |-> TRUE, subproject |-> subproject_arg, test |-> test,
                    test_objects |-> test_objects,
                    dispatched |->
                        << [command |-> "gradle",
                            args |-> << <<"-q">>, <<"-p">>, subdir >> \o gradle_command,
                            result |-> result] >>,
                    result |-> result]
        /\ UNCHANGED <<callers, inputs, pc, frame, layer>>

\* The mach process ends; the next command runs in a new one.
MachExit ==
    /\ call.made
    /\ call' = NoCall
    /\ UNCHANGED <<callers, inputs, pc, frame, layer>>

\* The paths of the runs.
Slashed(names) == str_join(<<Sep>>, [i \in 1..Len(names) |-> <<names[i]>>])

GeckoBundleTest ==
    Slashed(<<"mobile", "android", "geckoview", "src", "test", "java", "org",
              "GeckoBundleTest">>) \o <<".java">>

EngineTest ==
    Slashed(<<"mobile", "android", "android-components", "components", "concept",
              "engine", "src", "test", "java", "mozilla", "EngineTest">>) \o <<".kt">>

EngineViewTest ==
    Slashed(<<"mobile", "android", "android-components", "components", "concept",
              "engine", "src", "test", "java", "mozilla", "EngineViewTest">>) \o <<".kt">>

GeckoEngineTest ==
    Slashed(<<"mobile", "android", "android-components", "components", "browser",
              "engine-gecko", "src", "test", "java", "mozilla", "GeckoEngineTest">>)
        \o <<".kt">>

HomeFragmentTest ==
    Slashed(<<"mobile", "android", "fenix", "app", "src", "test", "java", "org",
              "HomeFragmentTest">>) \o <<".kt">>

EngineProviderTest ==
    Slashed(<<"mobile", "android", "focus-android", "app", "src", "test", "java", "org",
              "EngineProviderTest">>) \o <<".kt">>

\* A test under a directory that has the name of an alias.
GvAliasTest ==
    Slashed(<<"mobile", "android", "gv", "src", "test", "java", "org", "AliasTest">>)
        \o <<".java">>

\* A test of a project run_android_test does not know.
ExamplesTest ==
    Slashed(<<"mobile", "android", "examples", "src", "test", "java", "org",
              "ExamplesTest">>) \o <<".kt">>

\* " ./mobile//android/fenix/app/src/test/java/org/HomeFragmentTest.kt ": not
\* normalised, and with blanks around it.
UntidyHomeFragmentTest ==
    <<" ", ".", Sep, "mobile", Sep, Sep, "android", Sep>>
        \o Slashed(<<"fenix", "app", "src", "test", "java", "org", "HomeFragmentTest">>)
        \o <<".kt", " ">>

\* A test whose package repeats the names mobile/android.
NestedAndroidTest ==
    Slashed(<<"mobile", "android", "fenix", "app", "src", "test", "java", "mobile",
              "android", "NestedTest">>) \o <<".kt">>

\* The values of --subproject: its choices, and None as the tests pass it.
SubprojectArgs ==
    {<<"fenix">>, <<"focus">>, <<"android-components">>, <<"ac">>, <<"geckoview">>,
     <<"gv">>, None}

\* The values of --test: None (the default), or a path.
TestArgs ==
    {None, GeckoBundleTest, EngineTest, GeckoEngineTest, HomeFragmentTest,
     EngineProviderTest, GvAliasTest, ExamplesTest, UntidyHomeFragmentTest,
     NestedAndroidTest}

\* The tests the harness passes, at most MaxTestObjects of them in one call.
ObjectPaths == {EngineTest, EngineViewTest, GeckoEngineTest, HomeFragmentTest}

MaxTestObjects == 2

TestObjectLists ==
    UNION {[1..k -> {[name |-> q] : q \in ObjectPaths}] : k \in 0..MaxTestObjects}

DispatchResults == {"0", "1"}

InitMach ==
    /\ callers = {}
    /\ inputs = {}
    /\ InitThreads

NextMach ==
    \/ \E subproject \in SubprojectArgs, test \in TestArgs,
          test_objects \in TestObjectLists, result \in DispatchResults :
           RunAndroidTest(subproject, test, test_objects, result)
    \/ MachExit

SpecMach == InitMach /\ [][NextMach]_vars

-----------------------------------------------------------------------------
(* Claims about testing/android-test/mach_commands.py                      *)

\* The one gradle dispatch of the call, if it made one.
Dispatched == call.dispatched[1]

\* The canonical name of a subproject name or alias.
CanonicalName(name) ==
    CASE name = <<"focus">> -> <<"focus-android">>
      [] name = <<"ac">> -> <<"android-components">>
      [] name = <<"gv">> -> <<"geckoview">>
      [] OTHER -> name

\* The subproject the test path of the call names.
DerivedName == CanonicalName(project_for_test(call.test, Slashed(<<"mobile", "android">>)))

\* The call dispatched gradle once, in directory dir, with first task as said.
RanGradleIn(dir, task_ok(_)) ==
    /\ Len(call.dispatched) = 1
    /\ Dispatched.command = "gradle"
    /\ SubSeq(Dispatched.args, 1, 3) = << <<"-q">>, <<"-p">>, dir >>
    /\ task_ok(Dispatched.args[4])

\* C9: called with a test path, run_android_test uses the subproject that
\* project_for_test(test, "mobile/android") derives from the path, whatever
\* subproject argument was passed: the gradle directory and task are those of
\* the derived subproject (an alias standing for its project), and a derived
\* name that is no subproject dispatches nothing.
C9_TestPathDecidesSubproject ==
    (call.made /\ Truthy(call.test)) =>
        CASE DerivedName = <<"fenix">> ->
                RanGradleIn(Slashed(<<"mobile", "android", "fenix", "app">>),
                            LAMBDA task : task = <<"testDebugUnitTest">>)
          [] DerivedName = <<"focus-android">> ->
                RanGradleIn(Slashed(<<"mobile", "android", "focus-android", "app">>),
                            LAMBDA task : task = <<"testFocusDebugUnitTest">>)
          [] DerivedName = <<"android-components">> ->
                RanGradleIn(Slashed(<<"mobile", "android", "android-components">>),
                            LAMBDA task : /\ StartsWith(task, <<":components:">>)
                                          /\ EndsWith(task, <<":testDebugUnitTest">>))
          [] DerivedName = <<"geckoview">> ->
                RanGradleIn(Slashed(<<"mobile", "android", "geckoview">>),
                            LAMBDA task : task = <<"testDebugUnitTest">>)
          [] OTHER -> call.dispatched = << >> /\ call.result = "None"

\* A focus-android test was run although --subproject named another project.
C9_Witness ==
    /\ call.made
    /\ call.test = EngineProviderTest
    /\ call.subproject = <<"geckoview">>
    /\ Len(call.dispatched) = 1
    /\ Dispatched.args[3] = Slashed(<<"mobile", "android", "focus-android", "app">>)
    /\ Dispatched.args[4] = <<"testFocusDebugUnitTest">>

\* The tests of the call: those of the harness, then the stripped --test.
CallTests ==
    [i \in 1..Len(call.test_objects) |-> call.test_objects[i].name]
        \o (IF Truthy(call.test) THEN <<strip(call.test)>> ELSE << >>)

\* The call is for android-components: by its test path if it has one, by
\* its subproject argument otherwise.
ForAndroidComponents ==
    /\ call.made
    /\ IF Truthy(call.test)
       THEN DerivedName = <<"android-components">>
       ELSE CanonicalName(call.subproject) = <<"android-components">>

\* The gradle task of the component project of a test.
ComponentTask(test) ==
    <<":components:">>
        \o project_for_ac(test,
                          Slashed(<<"mobile", "android", "android-components", "components">>),
                          Slashed(<<"src", "test", "java">>))
        \o <<":testDebugUnitTest">>

\* The place of the first of the tests that has this task.
FirstWith(task) ==
    CHOOSE i \in 1..Len(CallTests) :
        /\ ComponentTask(CallTests[i]) = task
        /\ \A j \in 1..(i - 1) : ComponentTask(CallTests[j]) # task

\* C10: for android-components with a non-empty list of tests, gradle is
\* dispatched with one :components:<project>:testDebugUnitTest task for each
\* distinct component project of the tests, without duplicates and in the
\* order of first occurrence, then --rerun, then one --tests <classname> pair
\* for each test in the order given, duplicates of tests included.
C10_ComponentTasksThenTests ==
    (ForAndroidComponents /\ CallTests # << >>) =>
        LET args == Dispatched.args
            k == Cardinality({ComponentTask(CallTests[i]) : i \in 1..Len(CallTests)})
        IN  /\ Len(call.dispatched) = 1
            /\ Dispatched.command = "gradle"
            /\ Len(args) = 3 + k + 1 + 2 * Len(CallTests)
            /\ \A j \in 1..k : \E i \in 1..Len(CallTests) :
                    args[3 + j] = ComponentTask(CallTests[i])
            /\ \A i \in 1..Len(CallTests) : \E j \in 1..k :
                    args[3 + j] = ComponentTask(CallTests[i])
            /\ \A j1, j2 \in 1..k :
                    j1 < j2 => /\ args[3 + j1] # args[3 + j2]
                               /\ FirstWith(args[3 + j1]) < FirstWith(args[3 + j2])
            /\ args[3 + k + 1] = <<"--rerun">>
            /\ \A i \in 1..Len(CallTests) :
                    /\ args[3 + k + 2 * i] = <<"--tests">>
                    /\ args[3 + k + 2 * i + 1]
                          = classname_for_test(CallTests[i], Slashed(<<"src", "test", "java">>))

\* Three tests were run, the first and the last the same test of one
\* component and the second a test of another: two tasks, three --tests.
C10_Witness ==
    /\ ForAndroidComponents
    /\ Len(CallTests) = 3
    /\ CallTests[1] = CallTests[3]
    /\ ComponentTask(CallTests[1]) # ComponentTask(CallTests[2])
    /\ Len(call.dispatched) = 1
    /\ Len(Dispatched.args) = 12
    /\ Dispatched.args[4] = <<":components:", "concept", "-", "engine", ":testDebugUnitTest">>
    /\ Dispatched.args[5]
          = <<":components:", "browser", "-", "engine-gecko", ":testDebugUnitTest">>

\* The choices of --subproject.
AcceptedSubprojects ==
    {<<"fenix">>, <<"focus">>, <<"android-components">>, <<"ac">>, <<"geckoview">>,
     <<"gv">>}

\* The call was given no test: neither --test nor tests of the harness.
WithoutTests == call.made /\ ~Truthy(call.test) /\ call.test_objects = << >>

\* The gradle directory of a project.
ProjectDir(name) ==
    CASE name = <<"fenix">> -> Slashed(<<"mobile", "android", "fenix", "app">>)
      [] name = <<"focus-android">> -> Slashed(<<"mobile", "android", "focus-android", "app">>)
      [] name = <<"android-components">> ->
            Slashed(<<"mobile", "android", "android-components">>)
      [] name = <<"geckoview">> -> Slashed(<<"mobile", "android", "geckoview">>)

\* The gradle task that runs every unit test of a project.
ProjectTask(name) ==
    IF name = <<"focus-android">> THEN <<"testFocusDebugUnitTest">>
    ELSE <<"testDebugUnitTest">>

\* C11: called with one of the choices of --subproject and no tests,
\* run_android_test dispatches gradle exactly once, with the arguments -q, -p,
\* the directory of the project the (alias-resolved) subproject names, the
\* task of that project and --rerun, and returns what the dispatch returned.
C11_WholeProjectRun ==
    (WithoutTests /\ call.subproject \in AcceptedSubprojects) =>
        /\ Len(call.dispatched) = 1
        /\ Dispatched.command = "gradle"
        /\ Dispatched.args
              = << <<"-q">>, <<"-p">>, ProjectDir(CanonicalName(call.subproject)),
                   ProjectTask(CanonicalName(call.subproject)), <<"--rerun">> >>
        /\ call.result = Dispatched.result

\* The alias focus was run without tests, and the dispatch returned 1.
C11_Witness ==
    /\ WithoutTests
    /\ call.subproject = <<"focus">>
    /\ Len(call.dispatched) = 1
    /\ Dispatched.args[3] = Slashed(<<"mobile", "android", "focus-android", "app">>)
    /\ Dispatched.args[4] = <<"testFocusDebugUnitTest">>
    /\ Len(Dispatched.args) = 5
    /\ call.result = "1"

-----------------------------------------------------------------------------
(* The path helpers of mach_commands.py, called on their own as the tests  *)
(* of test_mach_commands.py call them.  A test path is put together from   *)
(* its parts, and call remembers the parts beside the result.              *)

\* The runs of directory names a part of a path is made of.
Fragments ==
    {<<"org">>, <<"mobile", "android">>, <<"src", "test", "java">>,
     <<"mobile", "android", "android-components", "components">>}

\* At most this many runs make up one part of a path.
MaxFragments == 2

RECURSIVE Flatten(_)
Flatten(seqs) == IF seqs = << >> THEN << >> ELSE Head(seqs) \o Flatten(Tail(seqs))

\* The parts: no, one or more runs after each other.
Parts == {Flatten(f) : f \in UNION {[1..k -> Fragments] : k \in 0..MaxFragments}}

\* File names without their suffix, and the suffixes of test files.
FileNames == {<<"FooTest">>, <<"FooTest", ".java">>}
Suffixes == {".kt", ".java"}

\* The projects under mobile/android, and the components of android-components.
ProjectNames == {"fenix", "focus-android", "android-components", "geckoview"}
ComponentDirs == {<< >>, <<"concept">>, <<"feature", "addons">>, <<"browser", "engine-gecko">>}

\* TEST_PATH_PREFIX, PROJECT_PREFIX and COMPONENT_PREFIX of the tests.
TestPathNames == <<"src", "test", "java">>
ProjectPrefixNames == <<"mobile", "android">>
ComponentPrefixNames == <<"mobile", "android", "android-components", "components">>

\* The path of a file: its directories, then its name and suffix.
FilePath(dirs, name, suffix) == Slashed(dirs) \o <<Sep>> \o name \o <<suffix>>

\* classname_for_test(test, "src/test/java") on <dirs>/src/test/java/<packages>/<name><suffix>
ClassnameForTest(dirs, packages, name, suffix) ==
    LET test == FilePath(dirs \o TestPathNames \o packages, name, suffix)
    IN  /\ ~call.made
        /\ call' = [made |-> TRUE, fn |-> "classname_for_test", test |-> test,
                    dirs |-> dirs, packages |-> packages, name |-> name, suffix |-> suffix,
                    result |-> classname_for_test(test, Slashed(TestPathNames))]
        /\ UNCHANGED <<callers, inputs, pc, frame, layer>>

\* project_for_test(test, "mobile/android") on mobile/android/<project>/<rest>/<name><suffix>
ProjectForTest(project, rest, name, suffix) ==
    LET test == FilePath(ProjectPrefixNames \o <<project>> \o rest, name, suffix)
    IN  /\ ~call.made
        /\ call' = [made |-> TRUE, fn |-> "project_for_test", test |-> test,
                    project |-> project, rest |-> rest, name |-> name, suffix |-> suffix,
                    result |-> project_for_test(test, Slashed(ProjectPrefixNames))]
        /\ UNCHANGED <<callers, inputs, pc, frame, layer>>

\* project_for_ac(test, "mobile/android/android-components/components", "src/test/java")
\* on <prefix>/<components>/src/test/java/<rest>/<name><suffix>
ProjectForAc(components, rest, name, suffix) ==
    LET test == FilePath(ComponentPrefixNames \o components \o TestPathNames \o rest,
                         name, suffix)
    IN  /\ ~call.made
        /\ call' = [made |-> TRUE, fn |-> "project_for_ac", test |-> test,
                    components |-> components, rest |-> rest, name |-> name,
                    suffix |-> suffix,
                    result |-> project_for_ac(test, Slashed(ComponentPrefixNames),
                                              Slashed(TestPathNames))]
        /\ UNCHANGED <<callers, inputs, pc, frame, layer>>

\* The caller is done with the result.
Forget ==
    /\ call.made
    /\ call' = NoCall
    /\ UNCHANGED <<callers, inputs, pc, frame, layer>>

NextPaths ==
    \/ \E dirs \in Parts, packages \in Parts, name \in FileNames, suffix \in Suffixes :
           ClassnameForTest(dirs, packages, name, suffix)
    \/ \E project \in ProjectNames, rest \in Parts, name \in FileNames, suffix \in Suffixes :
           ProjectForTest(project, rest, name, suffix)
    \/ \E components \in ComponentDirs, rest \in Parts, name \in FileNames,
          suffix \in Suffixes :
           ProjectForAc(components, rest, name, suffix)
    \/ Forget

SpecPaths == InitMach /\ [][NextPaths]_vars

-----------------------------------------------------------------------------
(* Claims about the path helpers                                           *)

\* The helper fn was called.
Called(fn) == call.made /\ call.fn = fn

\* names joined by sep, each name one run.
Joined(names, sep) == str_join(<<sep>>, [i \in 1..Len(names) |-> <<names[i]>>])

C13_ProjectOfPath ==
    Called("project_for_test") => call.result = <<call.project>>

\* C14: for <prefix>/<c1>/.../<ck>/src/test/java/<rest>, project_for_ac
\* returns c1-...-ck: the components between the prefix and the test_path
\* fragment joined by "-", with no separator before or after.
C14_ComponentOfPath ==
    Called("project_for_ac") => call.result = Joined(call.components, "-")

-----------------------------------------------------------------------------
(* toolkit/components/ml/eval/evals.py and                                 *)
(* python/mozperftest/mozperftest/metrics/eval.py                          *)
(*                                                                         *)
(* A Python dict is the sequence of its items <<key, value>> in insertion  *)
(* order.  True, False and None are the one-element sequences below, a     *)
(* float that is only copied is the sequence of its text, and a quotient   *)
(* of two integers is <<"/", numerator, denominator>> in lowest terms.     *)

PyTrue == <<"True">>
PyFalse == <<"False">>

HasKey(d, key) == \E i \in 1..Len(d) : d[i][1] = key

\* d.get(key, default)
Get(d, key, default) ==
    IF HasKey(d, key) THEN d[CHOOSE i \in 1..Len(d) : d[i][1] = key][2] ELSE default

\* d[key] = value: in the place of the key if d has it, at the end if not.
Put(d, key, value) ==
    IF HasKey(d, key)
    THEN [i \in 1..Len(d) |-> IF d[i][1] = key THEN <<key, value>> ELSE d[i]]
    ELSE Append(d, <<key, value>>)

\* d.setdefault(key, []).append(value)
SetDefaultAppend(d, key, value) == Put(d, key, Append(Get(d, key, << >>), value))

RECURSIVE Sum(_)
\* sum(values)
Sum(values) == IF values = << >> THEN 0 ELSE Head(values) + Sum(Tail(values))

RECURSIVE GCD(_, _)
GCD(a, b) == IF b = 0 THEN a ELSE GCD(b, a % b)

\* a / b for integers a >= 0 and b > 0
Quotient(a, b) == <<"/", a \div GCD(a, b), b \div GCD(a, b)>>

\* The payloads of the tests: a translation with its reference, as the tests
\* of the layer add them, and one that also has its source.  bleu and chrf
\* are the scores sacrebleu gives the translation.
TrgRef == [keys |-> {"trg", "ref"}, bleu |-> 100, chrf |-> 100]
SrcTrgRef == [keys |-> {"src", "trg", "ref"}, bleu |-> 20, chrf |-> 50]

\* What came of a call: the exception it raised (<< >> if none) and its result.
Raises(type, message) == [raised |-> <<type, message>>, result |-> << >>]
Returns(result) == [raised |-> << >>, result |-> result]

\* self.compute_score(trg, ref) of the subclass with this name: what
\* sacrebleu.corpus_bleu or sacrebleu.corpus_chrf gives the payload.
ComputeScore(name, payload) ==
    CASE name = <<"bleu">> -> payload.bleu
      [] name = <<"chrF">> -> payload.chrf

\* _TranslationsSacreBleu.run(payloads) of the subclass with this name
TranslationsSacreBleuRun(name, payloads) ==
    IF \E i \in 1..Len(payloads) : ~({"trg", "ref"} \subseteq payloads[i].keys)
    THEN Raises("ValueError", "Missing required translation fields")
    ELSE IF payloads = << >>
    THEN Raises("ValueError", "No evaluation results were produced for translation data.")
    ELSE Returns(<< <<"name", name>>,
                    <<"values", [i \in 1..Len(payloads) |-> ComputeScore(name, payloads[i])]>>,
                    <<"lowerIsBetter", PyTrue>> >>)

\* TranslationsBleu.run(payloads)
TranslationsBleuRun(payloads) == TranslationsSacreBleuRun(<<"bleu">>, payloads)

\* TranslationsChrf.run(payloads)
TranslationsChrfRun(payloads) == TranslationsSacreBleuRun(<<"chrF">>, payloads)

\* What query_llm and the parsing of its answer come to for one payload: a
\* score, or an exception (no token, a failed request, an answer that is no
\* JSON or has no score).
JudgeReplies == {[ok |-> FALSE, score |-> 0], [ok |-> TRUE, score |-> 40],
                 [ok |-> TRUE, score |-> 80]}

\* TranslationsLlmJudge.run(payloads), the judge answering replies[i] on the
\* i-th payload
TranslationsLlmJudgeRun(payloads, replies) ==
    LET bad == {i \in 1..Len(payloads) :
                    \/ ~({"src", "trg", "ref"} \subseteq payloads[i].keys)
                    \/ ~replies[i].ok}
        first == CHOOSE i \in bad : \A j \in bad : i <= j
    IN  IF bad # {}
        THEN IF {"src", "trg", "ref"} \subseteq payloads[first].keys
             THEN Raises("RuntimeError", "LLM evaluation failed")
             ELSE Raises("ValueError", "Missing required translation fields")
        ELSE IF payloads = << >>
        THEN Raises("ValueError", "No evaluation results were produced for LLM judge data.")
        ELSE Returns(<< <<"name", <<"llm-judge">> >>,
                        <<"values", [i \in 1..Len(payloads) |-> replies[i].score]>>,
                        <<"lowerIsBetter", PyFalse>> >>)

\* The evaluation classes of evals.py that can be run.
EvalClasses == {"TranslationsBleu", "TranslationsChrf", "TranslationsLlmJudge"}

\* eval_cls.requirements
Requirements(eval_name) ==
    IF eval_name \in {"TranslationsBleu", "TranslationsChrf"}
    THEN << "sacrebleu==2.4.2" >>
    ELSE << >>

\* Classes the layer is given in place of those of evals.py, as the tests
\* give it MockBleuEval: each runs as MockBleuEval does, but its result leaves
\* out the name or lowerIsBetter, or has an empty name or a lowerIsBetter of
\* None.
MockEvalClasses ==
    {"MockWithoutName", "MockWithEmptyName", "MockWithoutLowerIsBetter",
     "MockWithNoneLowerIsBetter"}

\* The run of such a class: 100.0 for each payload.
MockRun(eval_name, payloads) ==
    LET values == <<"values", [i \in 1..Len(payloads) |-> 100]>>
    IN  CASE eval_name = "MockWithoutName" ->
                Returns(<<values, <<"lowerIsBetter", PyTrue>> >>)
          [] eval_name = "MockWithEmptyName" ->
                Returns(<< <<"name", << >> >>, values, <<"lowerIsBetter", PyTrue>> >>)
          [] eval_name = "MockWithoutLowerIsBetter" ->
                Returns(<< <<"name", <<"bleu">> >>, values>>)
          [] eval_name = "MockWithNoneLowerIsBetter" ->
                Returns(<< <<"name", <<"bleu">> >>, values, <<"lowerIsBetter", None>> >>)

\* The classes load_class_from_path finds.
LoadableClasses == EvalClasses \cup MockEvalClasses

\* eval_instance.run(payloads)
EvalRun(eval_name, payloads, replies) ==
    CASE eval_name = "TranslationsBleu" -> TranslationsBleuRun(payloads)
      [] eval_name = "TranslationsChrf" -> TranslationsChrfRun(payloads)
      [] eval_name = "TranslationsLlmJudge" -> TranslationsLlmJudgeRun(payloads, replies)
      [] eval_name \in MockEvalClasses -> MockRun(eval_name, payloads)

\* The tests that add eval payloads, by number.
TestName(n) == <<"test_translation", n, ".js">>

\* The lists of payloads one test adds.
PayloadLists == {<< >>, <<TrgRef>>, <<SrcTrgRef>>, <<TrgRef, SrcTrgRef>>}

\* At most this many tests add payloads, and at most this many evaluations
\* are configured.
MaxTests == 2
MaxEvaluations == 2

\* metadata.get_eval_payloads(): the pairs (test name, payloads) of the tests.
EvalPayloads ==
    UNION {{[n \in 1..k |-> <<TestName(n), lists[n]>>] : lists \in [1..k -> PayloadLists]}
              : k \in 0..MaxTests}

\* The configurations of an evaluation.
EvalConfigs ==
    {<< <<"shouldAlert", PyFalse>> >>,
     << <<"shouldAlert", PyTrue>>, <<"alertThreshold", <<"5.0">> >> >>,
     << <<"alertThreshold", None>> >>}

\* The names a script gives its evaluations: classes of evals.py, or not.
EvalNames == EvalClasses \cup {"NonExistentEvalClass"}

\* The evaluations of a script: each name at most once.
Evaluations ==
    UNION {{[n \in 1..k |-> <<names[n], configs[n]>>] :
                names \in {f \in [1..k -> EvalNames] :
                              \A a, b \in 1..k : a # b => f[a] # f[b]},
                configs \in [1..k -> EvalConfigs]}
              : k \in 0..MaxEvaluations}

\* metadata.script: with evaluations, or without at one of the three levels.
Scripts ==
    {<< >>, << <<"options", << >> >> >>, << <<"options", << <<"default", << >> >> >> >> >>}
        \cup {<< <<"options", << <<"default", << <<"evaluations", evaluations>> >> >> >> >> >>
                 : evaluations \in Evaluations}

\* The layer before its run: the metadata as the tests have set it up, no
\* file in the output directory and no result.
LayerBefore(script, eval_payloads) ==
    [pc |-> "ready", script |-> script, eval_payloads |-> eval_payloads,
     evaluations |-> << >>, e |-> 0, t |-> 0, m |-> 0,
     loaded |-> << >>, installed |-> << >>, ran |-> << >>,
     per_metric_results |-> << >>, metric_to_config |-> << >>,
     output_dir |-> FALSE, files |-> << >>, results |-> << >>, raised |-> << >>]

\* raise type(message)
Raise(type, message) == layer' = [layer EXCEPT !.pc = "raised", !.raised = <<type, message>>]

\* A run that looks for the payloads before it looks for the evaluations.
RunPayloadsFirst ==
    LET evaluations ==
            Get(Get(Get(layer.script, "options", << >>), "default", << >>),
                "evaluations", << >>)
    IN  /\ layer.pc = "ready"
        /\ IF layer.eval_payloads = << >>
           THEN Raise("EvalMetricsPayloadError", "No eval payloads were found.")
           ELSE IF evaluations = << >>
           THEN Raise("EvalMetricsConfigurationError",
                      "No evaluations were configured for this run.")
           ELSE layer' = [layer EXCEPT !.pc = "load", !.evaluations = evaluations, !.e = 1]
        /\ UNCHANGED <<callers, inputs, pc, frame, call>>

\* A run that finds out that there are no payloads only when it has loaded
\* its first evaluation.
RunPayloadsLate ==
    LET evaluations ==
            Get(Get(Get(layer.script, "options", << >>), "default", << >>),
                "evaluations", << >>)
    IN  /\ layer.pc = "ready"
        /\ IF evaluations = << >>
           THEN Raise("EvalMetricsConfigurationError",
                      "No evaluations were configured for this run.")
           ELSE IF layer.eval_payloads = << >>
           THEN layer' = [layer EXCEPT
                            !.pc = "raised",
                            !.loaded = <<evaluations[1][1]>>,
                            !.raised = <<"EvalMetricsPayloadError",
                                         "No eval payloads were found.">>]
           ELSE layer' = [layer EXCEPT !.pc = "load", !.evaluations = evaluations, !.e = 1]
        /\ UNCHANGED <<callers, inputs, pc, frame, call>>

\* run(self, metadata) up to the loop over the evaluations
Run ==
    LET evaluations ==
            Get(Get(Get(layer.script, "options", << >>), "default", << >>),
                "evaluations", << >>)
    IN  /\ layer.pc = "ready"
        /\ IF evaluations = << >>
           THEN Raise("EvalMetricsConfigurationError",
                      "No evaluations were configured for this run.")
           ELSE IF layer.eval_payloads = << >>
           THEN Raise("EvalMetricsPayloadError", "No eval payloads were found.")
           ELSE layer' = [layer EXCEPT !.pc = "load", !.evaluations = evaluations, !.e = 1]
        /\ UNCHANGED <<callers, inputs, pc, frame, call>>

\* One evaluation: its class is loaded, its instance made and its
\* requirements installed.
LoadEvaluation ==
    LET eval_name == layer.evaluations[layer.e][1]
    IN  /\ layer.pc = "load"
        /\ IF eval_name \notin LoadableClasses
           THEN Raise("ImportError", "was found but it was not a valid class")
           ELSE layer' = [layer EXCEPT !.pc = "run", !.t = 1,
                                       !.loaded = Append(@, eval_name),
                                       !.installed = @ \o Requirements(eval_name)]
        /\ UNCHANGED <<callers, inputs, pc, frame, call>>

\* The answers the judge may give on the payloads of a test; no judge, no
\* answers.
RepliesOf(eval_name, payloads) ==
    IF eval_name = "TranslationsLlmJudge"
    THEN [1..Len(payloads) -> JudgeReplies]
    ELSE {<< >>}

\* A pass of the loop that takes a result as it comes, with or without
\* lowerIsBetter, and leaves that to the loop over per_metric_results.
RunEvaluationUnranked ==
    LET eval_name == layer.evaluations[layer.e][1]
        eval_config == layer.evaluations[layer.e][2]
        test_name == layer.eval_payloads[layer.t][1]
        payloads == layer.eval_payloads[layer.t][2]
    IN  /\ layer.pc = "run"
        /\ \E replies \in RepliesOf(eval_name, payloads) :
              LET out == EvalRun(eval_name, payloads, replies)
                  metric_name == Get(out.result, "name", None)
                  lower_is_better == Get(out.result, "lowerIsBetter", None)
                  result == Put(out.result, "subtest", test_name)
                  returned ==
                      [layer EXCEPT !.ran = Append(@, <<eval_name, test_name, out.result>>)]
              IN  IF out.raised # << >>
                  THEN layer' = [layer EXCEPT !.pc = "raised", !.raised = out.raised]
                  ELSE IF ~Truthy(metric_name)
                  THEN layer' = [returned EXCEPT
                                   !.pc = "raised",
                                   !.raised = <<"EvalMetricsResultError",
                                                "Eval metric result is missing a name">>]
                  ELSE layer' =
                         [returned EXCEPT
                            !.per_metric_results = SetDefaultAppend(@, metric_name, result),
                            !.metric_to_config = Put(@, metric_name, eval_config),
                            !.t = IF layer.t < Len(layer.eval_payloads) THEN @ + 1 ELSE 0,
                            !.e = IF layer.t < Len(layer.eval_payloads) THEN @
                                  ELSE IF layer.e < Len(layer.evaluations) THEN @ + 1
                                  ELSE 0,
                            !.pc = IF layer.t < Len(layer.eval_payloads) THEN "run"
                                   ELSE IF layer.e < Len(layer.evaluations) THEN "load"
                                   ELSE "output"]
        /\ UNCHANGED <<callers, inputs, pc, frame, call>>

\* One pass of the loop "Run the evals from toolkit/components/ml/eval": the
\* evaluation e is run on the payloads of the test t; ran keeps what it
\* returned.
RunEvaluation ==
    LET eval_name == layer.evaluations[layer.e][1]
        eval_config == layer.evaluations[layer.e][2]
        test_name == layer.eval_payloads[layer.t][1]
        payloads == layer.eval_payloads[layer.t][2]
    IN  /\ layer.pc = "run"
        /\ \E replies \in RepliesOf(eval_name, payloads) :
              LET out == EvalRun(eval_name, payloads, replies)
                  metric_name == Get(out.result, "name", None)
                  lower_is_better == Get(out.result, "lowerIsBetter", None)
                  result == Put(out.result, "subtest", test_name)
                  returned ==
                      [layer EXCEPT !.ran = Append(@, <<eval_name, test_name, out.result>>)]
              IN  IF out.raised # << >>
                  THEN layer' = [layer EXCEPT !.pc = "raised", !.raised = out.raised]
                  ELSE IF ~Truthy(metric_name)
                  THEN layer' = [returned EXCEPT
                                   !.pc = "raised",
                                   !.raised = <<"EvalMetricsResultError",
                                                "Eval metric result is missing a name">>]
                  ELSE IF lower_is_better = None
                  THEN layer' = [returned EXCEPT
                                   !.pc = "raised",
                                   !.raised = <<"EvalMetricsResultError",
                                                "missing lowerIsBetter">>]
                  ELSE layer' =
                         [returned EXCEPT
                            !.per_metric_results = SetDefaultAppend(@, metric_name, result),
                            !.metric_to_config = Put(@, metric_name, eval_config),
                            !.t = IF layer.t < Len(layer.eval_payloads) THEN @ + 1 ELSE 0,
                            !.e = IF layer.t < Len(layer.eval_payloads) THEN @
                                  ELSE IF layer.e < Len(layer.evaluations) THEN @ + 1
                                  ELSE 0,
                            !.pc = IF layer.t < Len(layer.eval_payloads) THEN "run"
                                   ELSE IF layer.e < Len(layer.evaluations) THEN "load"
                                   ELSE "output"]
        /\ UNCHANGED <<callers, inputs, pc, frame, call>>

\* output_dir.mkdir(parents=True, exist_ok=True)
MakeOutputDir ==
    /\ layer.pc = "output"
    /\ layer' = [layer EXCEPT !.pc = "write", !.output_dir = TRUE, !.m = 1]
    /\ UNCHANGED <<callers, inputs, pc, frame, call>>

\* Rows that hold one value of each result only.
RowsOfFirstValues(results) ==
    [r \in 1..Len(results) |->
        << <<Get(results[r], "subtest", None), Get(results[r], "values", << >>)[1]>> >>]

\* rows: {test_name: value} for each value of each result, in their order.
Rows(results) ==
    Flatten([r \in 1..Len(results) |->
                LET values == Get(results[r], "values", << >>)
                IN  [v \in 1..Len(values) |->
                        << <<Get(results[r], "subtest", None), values[v]>> >>]])

\* combined_values: the values of the results, in their order.
CombinedValues(results) ==
    Flatten([r \in 1..Len(results) |-> Get(results[r], "values", << >>)])

\* The summary that takes the first value for the whole.
SummaryValueFirst(combined_values) ==
    IF combined_values # << >> THEN Quotient(combined_values[1], 1) ELSE None

\* summary_value
SummaryValue(combined_values) ==
    IF combined_values # << >>
    THEN Quotient(Sum(combined_values), Len(combined_values))
    ELSE None

\* eval_path: the file of a metric in the output directory.
EvalPath(metric_name) ==
    <<"output", Sep, "eval-">> \o replace(metric_name, Sep, "_") \o <<".json">>

\* The alert settings taken from the configuration of the first evaluation.
AlertConfigFirst(metric_to_config, metric_name) == metric_to_config[1][2]

\* config = metric_to_config.get(metric_name)
AlertConfig(metric_to_config, metric_name) == Get(metric_to_config, metric_name, None)

\* One pass of the loop over per_metric_results: the file of the metric m is
\* written and its result added to metadata.
WriteMetric ==
    LET metric_name == layer.per_metric_results[layer.m][1]
        results == layer.per_metric_results[layer.m][2]
        eval_path == EvalPath(metric_name)
        written == [layer EXCEPT !.files = Put(@, eval_path, Rows(results))]
        config == AlertConfig(layer.metric_to_config, metric_name)
        lower_is_better == Get(results[1], "lowerIsBetter", None)
        suite_result ==
            << <<"name", metric_name>>,
               <<"framework", << <<"name", <<"mozperftest">> >> >> >>,
               <<"results", eval_path>>,
               <<"unit", metric_name>>,
               <<"lowerIsBetter", lower_is_better>>,
               <<"shouldAlert", Get(config, "shouldAlert", PyFalse)>>,
               <<"value", SummaryValue(CombinedValues(results))>> >>
        alert_threshold == Get(config, "alertThreshold", None)
    IN  /\ layer.pc = "write"
        /\ layer.m <= Len(layer.per_metric_results)
        /\ IF \E r \in 1..Len(results) : ~Truthy(Get(results[r], "subtest", None))
           THEN Raise("EvalMetricsResultError", "missing subtest name")
           ELSE IF config = None
           THEN layer' = [written EXCEPT
                            !.pc = "raised",
                            !.raised = <<"EvalMetricsConfigurationError",
                                         "Missing configuration for metric">>]
           ELSE IF lower_is_better = None
           THEN layer' = [written EXCEPT
                            !.pc = "raised",
                            !.raised = <<"EvalMetricsResultError",
                                         "Missing lowerIsBetter for metric">>]
           ELSE layer' =
                  [written EXCEPT
                     !.m = @ + 1,
                     !.results =
                        Append(@, IF alert_threshold # None
                                  THEN Append(suite_result,
                                              <<"alertThreshold", alert_threshold>>)
                                  ELSE suite_result)]
        /\ UNCHANGED <<callers, inputs, pc, frame, call>>

\* return metadata
ReturnMetadata ==
    /\ layer.pc = "write"
    /\ layer.m > Len(layer.per_metric_results)
    /\ layer' = [layer EXCEPT !.pc = "done", !.m = 0]
    /\ UNCHANGED <<callers, inputs, pc, frame, call>>

InitEval ==
    /\ callers = {}
    /\ inputs = {}
    /\ pc = [t \in Threads |-> "idle"]
    /\ frame = [t \in Threads |-> NoFrame]
    /\ call = NoCall
    /\ \E script \in Scripts, eval_payloads \in EvalPayloads :
          layer = LayerBefore(script, eval_payloads)

NextEval ==
    \/ Run
    \/ LoadEvaluation
    \/ RunEvaluation
    \/ MakeOutputDir
    \/ WriteMetric
    \/ ReturnMetadata

SpecEval == InitEval /\ [][NextEval]_vars

\* The evaluations of a script of a test that gives the layer mock classes:
\* TranslationsBleu and the mock classes, each at most once, configured as the
\* tests configure them.
MockEvaluations ==
    UNION {{[n \in 1..k |-> <<names[n], << <<"shouldAlert", PyFalse>> >> >>] :
                names \in {f \in [1..k -> {"TranslationsBleu"} \cup MockEvalClasses] :
                              \A a, b \in 1..k : a # b => f[a] # f[b]}}
              : k \in 1..MaxEvaluations}

InitEvalMock ==
    /\ callers = {}
    /\ inputs = {}
    /\ pc = [t \in Threads |-> "idle"]
    /\ frame = [t \in Threads |-> NoFrame]
    /\ call = NoCall
    /\ \E evaluations \in MockEvaluations, eval_payloads \in EvalPayloads :
          layer = LayerBefore(
                      << <<"options", << <<"default", << <<"evaluations", evaluations>> >> >> >> >> >>,
                      eval_payloads)

SpecEvalMock == InitEvalMock /\ [][NextEval]_vars

-----------------------------------------------------------------------------
(* Claims about EvalMetrics.run and the evaluations                        *)

\* The run has started: it is under way, has raised or has returned.
Started == layer.pc \notin {"none", "ready"}

\* The run raised this exception.
Raised(type, message) == layer.pc = "raised" /\ layer.raised = <<type, message>>

\* Nothing of the run can be seen from outside: no class loaded, no
\* requirement installed, no output directory, no file, no result.
NothingDone ==
    /\ layer.loaded = << >>
    /\ layer.installed = << >>
    /\ ~layer.output_dir
    /\ layer.files = << >>
    /\ layer.results = << >>

\* What a dict says under a key, if it says anything.
Said(d, key) == {d[i][2] : i \in {k \in 1..Len(d) : d[k][1] = key}}

\* The evaluations the script configures, if it has any: what it says under
\* options, default, evaluations, unless that is empty.
Configured ==
    UNION {UNION {Said(default, "evaluations") : default \in Said(options, "default")}
              : options \in Said(layer.script, "options")} \ {<< >>}

\* C15: whenever the options of the script carry no evaluations, missing at
\* any level or empty, EvalMetrics.run raises EvalMetricsConfigurationError
\* "No evaluations were configured for this run.", with or without eval
\* payloads, and no class was loaded, no file written and no result added.
C15_NoEvaluationsRaises ==
    (Started /\ Configured = {}) =>
        /\ Raised("EvalMetricsConfigurationError",
                  "No evaluations were configured for this run.")
        /\ NothingDone

\* The script has options but no default, two tests have payloads, and the
\* run has raised the configuration error.
C15_Witness ==
    /\ layer.pc = "raised"
    /\ layer.script = << <<"options", << >> >> >>
    /\ Len(layer.eval_payloads) = 2
    /\ layer.raised[1] = "EvalMetricsConfigurationError"

\* C16: with evaluations configured and no eval payloads in metadata,
\* EvalMetrics.run raises EvalMetricsPayloadError "No eval payloads were
\* found.", and no class was loaded, no requirement installed, no file
\* written and no result added.
C16_NoPayloadsRaises ==
    (Started /\ Configured # {} /\ layer.eval_payloads = << >>) =>
        /\ Raised("EvalMetricsPayloadError", "No eval payloads were found.")
        /\ NothingDone

\* Two evaluations are configured, the first with a requirement, no test
\* has payloads, and the run has raised the payload error.
C16_Witness ==
    /\ layer.pc = "raised"
    /\ layer.eval_payloads = << >>
    /\ \E evaluations \in Configured :
          Len(evaluations) = 2 /\ evaluations[1][1] = "TranslationsBleu"
    /\ layer.raised[1] = "EvalMetricsPayloadError"

\* What the evaluations returned for a metric, in the order they were run:
\* the entries <<evaluation, test, result>> of the run with this name.
RECURSIVE ReturnedFor(_, _)
ReturnedFor(metric_name, ran) ==
    IF ran = << >> THEN << >>
    ELSE (IF Get(Head(ran)[3], "name", None) = metric_name THEN <<Head(ran)>> ELSE << >>)
            \o ReturnedFor(metric_name, Tail(ran))

\* The metric names the evaluations returned.
MetricNames == {Get(layer.ran[i][3], "name", None) : i \in 1..Len(layer.ran)}

\* The values the evaluations returned for a metric, with the test of each.
RECURSIVE ValuesWithTests(_)
ValuesWithTests(returned) ==
    IF returned = << >> THEN << >>
    ELSE LET values == Get(Head(returned)[3], "values", << >>)
         IN  [v \in 1..Len(values) |-> [test |-> Head(returned)[2], value |-> values[v]]]
                \o ValuesWithTests(Tail(returned))

\* The results of metadata and the files of the output directory for a metric.
ResultsOf(metric_name) ==
    {i \in 1..Len(layer.results) : Get(layer.results[i], "name", None) = metric_name}
FilesOf(metric_name) ==
    {i \in 1..Len(layer.files) :
        layer.files[i][1] = <<"output", Sep, "eval-">> \o metric_name \o <<".json">>}

\* C17: after a successful run, metadata has exactly one result and the
\* output directory exactly one file eval-<metric>.json for each distinct
\* metric name the evaluations returned, and nothing else; the rows of the
\* file are single-entry mappings {test name: value}, one for each value the
\* metric produced over all tests, in the order the tests were processed.
C17_OneResultOneFilePerMetric ==
    layer.pc = "done" =>
        /\ Len(layer.results) = Cardinality(MetricNames)
        /\ Len(layer.files) = Cardinality(MetricNames)
        /\ \A metric_name \in MetricNames :
              /\ Cardinality(ResultsOf(metric_name)) = 1
              /\ Cardinality(FilesOf(metric_name)) = 1
              /\ LET rows == layer.files[CHOOSE i \in FilesOf(metric_name) : TRUE][2]
                     produced == ValuesWithTests(ReturnedFor(metric_name, layer.ran))
                 IN  /\ Len(rows) = Len(produced)
                     /\ \A k \in 1..Len(rows) :
                           /\ Len(rows[k]) = 1
                           /\ rows[k][1] = <<produced[k].test, produced[k].value>>

\* Two evaluations ran on two tests, the second test with two payloads: two
\* results, and two files of three rows each.
C17_Witness ==
    /\ layer.pc = "done"
    /\ Len(layer.ran) = 4
    /\ Len(layer.results) = 2
    /\ Len(layer.files) = 2
    /\ Len(layer.files[1][2]) = 3
    /\ layer.files[1][2][1][1][1] = TestName(1)
    /\ layer.files[1][2][3][1][1] = TestName(2)

\* The metric an evaluation class reports.
MetricOf(eval_name) ==
    CASE eval_name = "TranslationsBleu" -> <<"bleu">>
      [] eval_name = "TranslationsChrf" -> <<"chrF">>
      [] eval_name = "TranslationsLlmJudge" -> <<"llm-judge">>
      [] OTHER -> << >>

\* The configurations the script gives the evaluations that report a metric.
ConfigsFor(metric_name) ==
    UNION {{evaluations[n][2] :
                n \in {k \in 1..Len(evaluations) : MetricOf(evaluations[k][1]) = metric_name}}
              : evaluations \in Configured}

\* C18: each result added to metadata has the shouldAlert of the
\* configuration of the evaluation that produced its metric, False if the
\* configuration has none, and has an alertThreshold exactly if that
\* configuration sets one that is not None, the same one; the settings of
\* another evaluation do not show on it.
C18_AlertSettingsOfOwnEvaluation ==
    \A i \in 1..Len(layer.results) :
        LET result == layer.results[i]
            configs == ConfigsFor(Get(result, "name", None))
        IN  /\ Cardinality(configs) = 1
            /\ \A config \in configs :
                  /\ Said(result, "shouldAlert")
                        = (IF Said(config, "shouldAlert") = {} THEN {PyFalse}
                           ELSE Said(config, "shouldAlert"))
                  /\ Said(result, "alertThreshold") = Said(config, "alertThreshold") \ {None}

\* Two results were added: the first of an evaluation that sets no
\* shouldAlert and a null alertThreshold, the second of one that alerts at 5.0.
C18_Witness ==
    /\ Len(layer.results) = 2
    /\ \E evaluations \in Configured :
          /\ evaluations[1][2] = << <<"alertThreshold", None>> >>
          /\ evaluations[2][2] = << <<"shouldAlert", PyTrue>>, <<"alertThreshold", <<"5.0">> >> >>
    /\ Said(layer.results[1], "shouldAlert") = {PyFalse}
    /\ Said(layer.results[1], "alertThreshold") = {}
    /\ Said(layer.results[2], "alertThreshold") = {<<"5.0">>}

\* C19: the value of each result added to metadata is the arithmetic mean of
\* all values the metric produced over all tests, their sum divided by their
\* count, and it is a number, not None, when the metric produced a value.
C19_ValueIsMean ==
    \A i \in 1..Len(layer.results) :
        LET result == layer.results[i]
            produced == ValuesWithTests(ReturnedFor(Get(result, "name", None), layer.ran))
            value == Get(result, "value", None)
        IN  produced # << >> =>
                /\ value # None
                /\ value[1] = "/"
                /\ value[3] > 0
                /\ value[2] * Len(produced)
                      = value[3] * Sum([k \in 1..Len(produced) |-> produced[k].value])

\* bleu produced 100, 100 and 20 over two tests: the value is 220/3.
C19_Witness ==
    /\ layer.pc = "done"
    /\ Len(layer.results) >= 1
    /\ Get(layer.results[1], "name", None) = <<"bleu">>
    /\ Len(ValuesWithTests(ReturnedFor(<<"bleu">>, layer.ran))) = 3
    /\ Get(layer.results[1], "value", None) = <<"/", 220, 3>>

\* C20: the bleu and chrF metrics that TranslationsBleu.run and
\* TranslationsChrf.run produce are reported with lowerIsBetter false, in
\* what run returns and in the result added to metadata.
C20_BleuChrfHigherIsBetter ==
    /\ \A i \in 1..Len(layer.ran) :
          layer.ran[i][1] \in {"TranslationsBleu", "TranslationsChrf"} =>
              Get(layer.ran[i][3], "lowerIsBetter", None) = PyFalse
    /\ \A i \in 1..Len(layer.results) :
          Get(layer.results[i], "name", None) \in {<<"bleu">>, <<"chrF">>} =>
              Get(layer.results[i], "lowerIsBetter", None) = PyFalse

\* A result lacks a name (it has none, or None, or an empty one) or a
\* lowerIsBetter (it has none, or None).
LacksName(result) == Said(result, "name") \subseteq {None, << >>}
LacksLowerIsBetter(result) == Said(result, "lowerIsBetter") \subseteq {None}

\* An evaluation returned a result that lacks one of the two.
LackingReturned ==
    \E i \in 1..Len(layer.ran) :
        LacksName(layer.ran[i][3]) \/ LacksLowerIsBetter(layer.ran[i][3])

\* Output has been produced: the output directory, a file or a result.
OutputProduced == layer.output_dir \/ layer.files # << >> \/ layer.results # << >>

\* Every configured evaluation has been run on the payloads of every test,
\* evaluation after evaluation and test after test.
AllRun ==
    /\ Len(layer.ran) = Len(layer.evaluations) * Len(layer.eval_payloads)
    /\ \A e \in 1..Len(layer.evaluations), t \in 1..Len(layer.eval_payloads) :
          LET entry == layer.ran[(e - 1) * Len(layer.eval_payloads) + t]
          IN  /\ entry[1] = layer.evaluations[e][1]
              /\ entry[2] = layer.eval_payloads[t][1]

\* C21: EvalMetrics.run works in two phases.  Output is produced only when
\* every configured evaluation has been run on every test payload; and when
\* an evaluation returns a result that lacks a name or a lowerIsBetter, the
\* run raises EvalMetricsResultError with no file written, the output
\* directory not created and no result added, also when evaluations before
\* it succeeded.
C21_RunThenOutput ==
    /\ OutputProduced => (AllRun /\ ~LackingReturned)
    /\ LackingReturned =>
          /\ layer.pc = "raised"
          /\ layer.raised[1] = "EvalMetricsResultError"
          /\ ~OutputProduced

\* TranslationsBleu ran on two tests, then a class whose result has no
\* lowerIsBetter ran on the first: the run has raised, with no output.
C21_Witness ==
    /\ layer.pc = "raised"
    /\ Len(layer.ran) = 3
    /\ layer.ran[1][1] = "TranslationsBleu"
    /\ layer.ran[2][1] = "TranslationsBleu"
    /\ layer.ran[3][1] = "MockWithoutLowerIsBetter"
    /\ LacksLowerIsBetter(layer.ran[3][3])
    /\ layer.raised[1] = "EvalMetricsResultError"
    /\ ~OutputProduced

====
